---------------------------- MODULE Spec2Model ----------------------------
(* ArduinoIBIS::Port (src/src/ArduinoIBIS.cpp, src/src/ArduinoIBIS.h):    *)
(* the lifecycle of the software-serial port (Begin, End), the diagnostic *)
(* switch (SetDebugOutput), the telegram formatters (DSxxx, GSP) and the  *)
(* frame encoder (SendTelegram, ToHexString).                             *)
(*                                                                        *)
(* An Arduino String is modelled as the sequence of its bytes (0..255);   *)
(* a character outside ASCII is the bytes of its UTF-8 encoding, which is *)
(* how the source file spells the umlauts it replaces.                    *)
EXTENDS Integers, Sequences, FiniteSets, TLC

VARIABLES port, quiet, last, input

vars == <<port, quiet, last, input>>

(* ---------------------------------------------------------------------- *)
(* Bounds of the model                                                    *)
(* ---------------------------------------------------------------------- *)

\* EspSoftwareSerial::UART objects Begin may allocate in one run
MaxUarts == 2

\* longest run of plain letters offered as a text argument
MaxFill == 5

(* ---------------------------------------------------------------------- *)
(* Program constants                                                      *)
(* ---------------------------------------------------------------------- *)

nullptr == 0

\* '\x0d', the frame terminator
CR == 13

\* '\x0a', the line separator of GSP
LF == 10

\* ' ', the padding character
SPACE == 32

\* the seed of the checksum
ChecksumSeed == 127

\* the first byte of the UTF-8 encoding of every umlaut replaced
Utf8Lead == 195

\* "0123456789:;<=>?"
hexCharacters == <<48, 49, 50, 51, 52, 53, 54, 55, 56, 57, 58, 59, 60, 61, 62, 63>>

(* ---------------------------------------------------------------------- *)
(* Bytes and strings                                                      *)
(* ---------------------------------------------------------------------- *)

Min(a, b) == IF a < b THEN a ELSE b

\* bit k (k a power of two) of a ^ b
XorBit(a, b, k) == (((a \div k) + (b \div k)) % 2) * k

\* a ^ b on 8 bits
Xor8(a, b) ==
    XorBit(a, b, 1) + XorBit(a, b, 2) + XorBit(a, b, 4) + XorBit(a, b, 8)
    + XorBit(a, b, 16) + XorBit(a, b, 32) + XorBit(a, b, 64) + XorBit(a, b, 128)

\* the first index at which find occurs in s, 0 when it does not (strstr)
FirstMatch(s, find) ==
    LET at == {i \in 1..(Len(s) - Len(find) + 1) : SubSeq(s, i, i + Len(find) - 1) = find}
    IN IF at = {} THEN 0 ELSE CHOOSE i \in at : \A j \in at : i <= j

\* String::replace(find, replace): every occurrence, left to right, the
\* search resuming after each occurrence replaced
\* String::replace that stops after the first occurrence
StringReplaceFirst(s, find, repl) ==
    LET foundAt == FirstMatch(s, find)
    IN IF foundAt = 0 THEN s
       ELSE SubSeq(s, 1, foundAt - 1) \o repl \o SubSeq(s, foundAt + Len(find), Len(s))

RECURSIVE StringReplace(_, _, _)
StringReplace(s, find, repl) ==
    LET foundAt == FirstMatch(s, find)
    IN IF foundAt = 0 THEN s
       ELSE SubSeq(s, 1, foundAt - 1) \o repl
            \o StringReplace(SubSeq(s, foundAt + Len(find), Len(s)), find, repl)

\* n times the byte c
Repeat(c, n) == [i \in 1..n |-> c]

\* the decimal digits of n, as printf's %d writes them
RECURSIVE Dec(_)
Dec(n) == IF n < 10 THEN <<48 + n>> ELSE Dec(n \div 10) \o <<48 + (n % 10)>>

\* printf's %0<width>d
ZeroPadded(n, width) ==
    LET d == Dec(n) IN IF Len(d) >= width THEN d ELSE Repeat(48, width - Len(d)) \o d

\* printf's %-<width>s
LeftJustified(s, width) ==
    IF Len(s) >= width THEN s ELSE s \o Repeat(SPACE, width - Len(s))

\* ceil(length / blockSize) of the formatters, stored in a uint8_t
NumBlocks(length, blockSize) == ((length + blockSize - 1) \div blockSize) % 256

(* ---------------------------------------------------------------------- *)
(* ToHexString                                                            *)
(* ---------------------------------------------------------------------- *)

ToHexString(value) ==
    LET highNibble == (value % 256) \div 16
        lowNibble == value % 16
    IN (IF highNibble > 0 THEN <<hexCharacters[highNibble + 1]>> ELSE <<>>)
       \o <<hexCharacters[lowNibble + 1]>>


(* ---------------------------------------------------------------------- *)
(* The port. _port is nullptr or the index in uarts of the UART object it *)
(* points to; uarts is the heap of UART objects created so far, each      *)
(* "valid" (begin succeeded), "invalid" (begin failed) or "ended".        *)
(* A handler yields the port after the call (st), what it returns (ret),  *)
(* the writes it made to the serial port (out) and the line it printed on *)
(* the diagnostic stream (dbg).                                           *)
(* ---------------------------------------------------------------------- *)

NewPort == [_port |-> nullptr, uarts |-> <<>>, _debug |-> FALSE, _debugOutput |-> nullptr]

\* the state of the transport the port points to
Transport(p) == IF p._port = nullptr THEN "none" ELSE p.uarts[p._port]

\* Begin without the check for a port already created
BeginUnguarded(p, initOk) ==
    [st |-> [p EXCEPT !.uarts = Append(@, IF initOk THEN "valid" ELSE "invalid"),
                      !._port = Len(p.uarts) + 1],
     ret |-> initOk, out |-> <<>>, dbg |-> "none"]

Begin(p, initOk) ==
    IF p._port # nullptr
    THEN [st |-> p, ret |-> FALSE, out |-> <<>>,
          dbg |-> IF p._debug THEN "cannot begin" ELSE "none"]
    ELSE LET created == [p EXCEPT !.uarts = Append(@, IF initOk THEN "valid" ELSE "invalid"),
                                  !._port = Len(p.uarts) + 1]
         IN IF ~initOk
            THEN [st |-> created, ret |-> FALSE, out |-> <<>>,
                  dbg |-> IF p._debug THEN "failed to begin" ELSE "none"]
            ELSE [st |-> created, ret |-> TRUE, out |-> <<>>,
                  dbg |-> IF p._debug THEN "created" ELSE "none"]

\* End that ends the port and keeps the pointer to it
EndKeepsPointer(p) ==
    IF p._port # nullptr
    THEN [st |-> [p EXCEPT !.uarts[p._port] = "ended"],
          ret |-> TRUE, out |-> <<>>, dbg |-> "none"]
    ELSE [st |-> p, ret |-> TRUE, out |-> <<>>, dbg |-> "none"]

End(p) ==
    IF p._port # nullptr
    THEN [st |-> [p EXCEPT !.uarts[p._port] = "ended", !._port = nullptr],
          ret |-> TRUE, out |-> <<>>, dbg |-> "none"]
    ELSE [st |-> p, ret |-> TRUE, out |-> <<>>, dbg |-> "none"]

SetDebugOutput(p, enable, outputStream) ==
    [st |-> [p EXCEPT !._debug = enable, !._debugOutput = outputStream],
     ret |-> TRUE, out |-> <<>>, dbg |-> "none"]

(* ---------------------------------------------------------------------- *)
(* SendTelegram                                                           *)
(* ---------------------------------------------------------------------- *)

\* the seven telegram.replace calls, in the order of the source
ReplaceUmlauts(telegram) ==
    LET r1 == StringReplace(telegram, <<Utf8Lead, 164>>, <<123>>)
        r2 == StringReplace(r1, <<Utf8Lead, 182>>, <<124>>)
        r3 == StringReplace(r2, <<Utf8Lead, 188>>, <<125>>)
        r4 == StringReplace(r3, <<Utf8Lead, 159>>, <<126>>)
        r5 == StringReplace(r4, <<Utf8Lead, 132>>, <<91>>)
        r6 == StringReplace(r5, <<Utf8Lead, 150>>, <<92>>)
    IN StringReplace(r6, <<Utf8Lead, 156>>, <<93>>)

\* telegram[lo] ^ ... ^ telegram[hi], the bytes in the order of the string
\* (^ is associative: the bytes are grouped in halves, which keeps the
\* evaluation shallow)
RECURSIVE XorOfBytes(_, _, _)
XorOfBytes(telegram, lo, hi) ==
    IF lo = hi THEN telegram[lo]
    ELSE LET mid == (lo + hi) \div 2
         IN Xor8(XorOfBytes(telegram, lo, mid), XorOfBytes(telegram, mid + 1, hi))

\* checksum after the loop
\* for (i = 0; i < telegram.length(); i++) checksum ^= telegram[i]
ChecksumLoop(telegram, checksum) ==
    IF Len(telegram) = 0 THEN checksum
    ELSE Xor8(checksum, XorOfBytes(telegram, 1, Len(telegram)))

\* the telegram wrapped with the checksum computed before the CR is appended
WrapTelegramChecksumFirst(telegram) ==
    LET replaced == ReplaceUmlauts(telegram)
    IN Append(Append(replaced, CR), ChecksumLoop(replaced, ChecksumSeed))

\* the telegram as wrapped: umlauts replaced, CR appended, checksum appended
WrapTelegram(telegram) ==
    LET withCR == Append(ReplaceUmlauts(telegram), CR)
    IN Append(withCR, ChecksumLoop(withCR, ChecksumSeed))

\* SendTelegram without the check for a null port
SendTelegramUnguarded(p, telegram) ==
    [st |-> p, ret |-> TRUE,
     out |-> <<[uart |-> p._port, bytes |-> WrapTelegram(telegram)]>>,
     dbg |-> IF p._debug THEN "sending telegram" ELSE "none"]

\* SendTelegram whose print to the port sits in the else branch of if (_debug)
SendTelegramTraceOnly(p, telegram) ==
    IF p._port = nullptr
    THEN [st |-> p, ret |-> TRUE, out |-> <<>>,
          dbg |-> IF p._debug THEN "cannot send" ELSE "none"]
    ELSE IF p._debug
         THEN [st |-> p, ret |-> TRUE, out |-> <<>>, dbg |-> "sending telegram"]
         ELSE [st |-> p, ret |-> TRUE,
               out |-> <<[uart |-> p._port, bytes |-> WrapTelegram(telegram)]>>,
               dbg |-> "none"]

SendTelegram(p, telegram) ==
    IF p._port = nullptr
    THEN [st |-> p, ret |-> TRUE, out |-> <<>>,
          dbg |-> IF p._debug THEN "cannot send" ELSE "none"]
    ELSE [st |-> p, ret |-> TRUE,
          out |-> <<[uart |-> p._port, bytes |-> WrapTelegram(telegram)]>>,
          dbg |-> IF p._debug THEN "sending telegram" ELSE "none"]

(* ---------------------------------------------------------------------- *)
(* The formatters: each yields the telegram it hands to SendTelegram      *)
(* ---------------------------------------------------------------------- *)

\* IBIS_SIMPLE_TELEGRAM(id, argType, fmt): the literal fmt starts with (lit),
\* its conversion (conv: "d" for %0<width>d, "s" for %-<width>s) and the
\* width of argType in bits
SimpleTelegrams ==
    [id \in {"001", "001neu", "001a", "001b", "001c", "001d", "001e", "001f", "002",
             "002a", "003", "003b", "003d", "003e", "003f", "003g", "004", "004a",
             "004b", "005", "006", "007", "009", "009a", "009b", "010", "010a",
             "010b", "010d"} |->
        CASE id = "001"    -> [lit |-> <<108>>,     conv |-> "d", width |-> 3,  bits |-> 16]
          [] id = "001neu" -> [lit |-> <<113>>,     conv |-> "d", width |-> 4,  bits |-> 16]
          [] id = "001a"   -> [lit |-> <<108, 69>>, conv |-> "d", width |-> 2,  bits |-> 8]
          [] id = "001b"   -> [lit |-> <<108, 70>>, conv |-> "d", width |-> 5,  bits |-> 16]
          [] id = "001c"   -> [lit |-> <<108, 80>>, conv |-> "d", width |-> 3,  bits |-> 16]
          [] id = "001d"   -> [lit |-> <<108, 67>>, conv |-> "d", width |-> 4,  bits |-> 16]
          [] id = "001e"   -> [lit |-> <<108, 67>>, conv |-> "d", width |-> 8,  bits |-> 16]
          [] id = "001f"   -> [lit |-> <<108, 67>>, conv |-> "d", width |-> 7,  bits |-> 16]
          [] id = "002"    -> [lit |-> <<107>>,     conv |-> "d", width |-> 2,  bits |-> 8]
          [] id = "002a"   -> [lit |-> <<107>>,     conv |-> "d", width |-> 5,  bits |-> 16]
          [] id = "003"    -> [lit |-> <<122>>,     conv |-> "d", width |-> 3,  bits |-> 16]
          [] id = "003b"   -> [lit |-> <<122, 82>>, conv |-> "d", width |-> 3,  bits |-> 16]
          [] id = "003d"   -> [lit |-> <<122, 78>>, conv |-> "d", width |-> 3,  bits |-> 16]
          [] id = "003e"   -> [lit |-> <<122, 80>>, conv |-> "d", width |-> 3,  bits |-> 16]
          [] id = "003f"   -> [lit |-> <<122, 78>>, conv |-> "d", width |-> 6,  bits |-> 16]
          [] id = "003g"   -> [lit |-> <<122, 76>>, conv |-> "d", width |-> 4,  bits |-> 16]
          [] id = "004"    -> [lit |-> <<101>>,     conv |-> "d", width |-> 6,  bits |-> 16]
          [] id = "004a"   -> [lit |-> <<101, 65>>, conv |-> "d", width |-> 4,  bits |-> 16]
          [] id = "004b"   -> [lit |-> <<101, 72>>, conv |-> "d", width |-> 7,  bits |-> 16]
          [] id = "005"    -> [lit |-> <<117>>,     conv |-> "d", width |-> 4,  bits |-> 16]
          [] id = "006"    -> [lit |-> <<100>>,     conv |-> "d", width |-> 5,  bits |-> 16]
          [] id = "007"    -> [lit |-> <<119>>,     conv |-> "d", width |-> 1,  bits |-> 8]
          [] id = "009"    -> [lit |-> <<118>>,     conv |-> "s", width |-> 16, bits |-> 0]
          [] id = "009a"   -> [lit |-> <<118>>,     conv |-> "s", width |-> 20, bits |-> 0]
          [] id = "009b"   -> [lit |-> <<118>>,     conv |-> "s", width |-> 24, bits |-> 0]
          [] id = "010"    -> [lit |-> <<120>>,     conv |-> "d", width |-> 4,  bits |-> 16]
          [] id = "010a"   -> [lit |-> <<120, 72>>, conv |-> "d", width |-> 4,  bits |-> 16]
          [] id = "010b"   -> [lit |-> <<120, 73>>, conv |-> "d", width |-> 2,  bits |-> 8]
          [] id = "010d"   -> [lit |-> <<120, 74>>, conv |-> "d", width |-> 4,  bits |-> 16]]

\* DS<id>(arg) with a numeric argument: sprintf(buf, fmt, arg)
DSNumber(id, arg) ==
    LET t == SimpleTelegrams[id]
    IN t.lit \o ZeroPadded(arg % (2 ^ t.bits), t.width)

\* DS<id>(arg) with a text argument: sprintf(buf, fmt, arg)
DSText(id, arg) ==
    LET t == SimpleTelegrams[id]
    IN t.lit \o LeftJustified(arg, t.width)

\* sprintf(buf, "xV%.1s%03d", sign, delay)
DS010e(sign, delay) ==
    <<120, 86>> \o SubSeq(sign, 1, Min(1, Len(sign))) \o ZeroPadded(delay, 3)

\* the loop filling the last block: for (i = blockSize; i > remainder; i--) concat(" ")
Padding(length, blockSize) ==
    LET remainder == length % blockSize
    IN IF remainder > 0 THEN Repeat(SPACE, blockSize - remainder) ELSE <<>>

DS003a(text) ==
    <<122, 65>> \o ToHexString(NumBlocks(Len(text), 16)) \o text \o Padding(Len(text), 16)

DS003c(text) ==
    <<122, 73>> \o ToHexString(NumBlocks(Len(text), 4)) \o text \o Padding(Len(text), 4)

DS021(address, text) ==
    LET numBlocks == NumBlocks(Len(text), 4)
    IN <<97, 65>> \o ToHexString(address) \o ToHexString(numBlocks)
       \o SubSeq(text, 1, Min(numBlocks * 16, Len(text)))

DS021a(address, stopId, stopText, changeText) ==
    LET data == <<3>> \o ZeroPadded(stopId, 2) \o <<4>> \o stopText \o <<5>> \o changeText
        len == Len(data)
        numBlocks == NumBlocks(len, 4)
        remainder == len % 4
    IN <<97, 76>> \o ToHexString(address) \o ToHexString(numBlocks)
       \o ToHexString(remainder) \o data

\* GSP that puts the separator after line1 whatever line2 is
GSPAlwaysSeparates(address, line1, line2) ==
    LET lines == line1 \o <<LF>> \o line2 \o <<LF, LF>>
        numBlocks == NumBlocks(Len(lines), 16)
    IN <<97, 65>> \o ToHexString(address) \o ToHexString(numBlocks)
       \o lines \o Padding(Len(lines), 16)

GSP(address, line1, line2) ==
    LET lines == line1 \o (IF Len(line2) > 0 THEN <<LF>> ELSE <<>>) \o line2 \o <<LF, LF>>
        numBlocks == NumBlocks(Len(lines), 16)
    IN <<97, 65>> \o ToHexString(address) \o ToHexString(numBlocks)
       \o lines \o Padding(Len(lines), 16)

(* ---------------------------------------------------------------------- *)
(* Arguments offered to the handlers                                      *)
(* ---------------------------------------------------------------------- *)

Addresses == {3, 18}

NumArgs == {1, 1234}

StopIds == {5}

\* "", "A", "AA", ... and texts of exactly one and just over one block of 16
FillTexts == {Repeat(65, n) : n \in 0..MaxFill} \cup {Repeat(65, 16), Repeat(65, 17)}

\* "Tür", "ü", "äöüßÄÖÜ", "üAüü" in UTF-8
UmlautTexts ==
    { <<84, 195, 188, 114>>,
      <<195, 188>>,
      <<195, 164, 195, 182, 195, 188, 195, 159, 195, 132, 195, 150, 195, 156>>,
      <<195, 188, 65, 195, 188, 195, 188>> }

Texts == FillTexts \cup UmlautTexts

\* "STOP", "Tür"
ShortTexts == {<<83, 84, 79, 80>>, <<84, 195, 188, 114>>}

\* "", "B"
SecondTexts == {<<>>, <<66>>}

\* "+", "-"
Signs == {<<43>>, <<45>>}

Streams == {1}

NumberIds == {id \in DOMAIN SimpleTelegrams : SimpleTelegrams[id].conv = "d"}

TextIds == {id \in DOMAIN SimpleTelegrams : SimpleTelegrams[id].conv = "s"}

\* a call of a formatter: its name and its arguments
Call(ds, addr, num, text, text2) ==
    [ds |-> ds, addr |-> addr, num |-> num, text |-> text, text2 |-> text2]

NoCall == Call("", 0, 0, <<>>, <<>>)

Calls ==
    {Call(id, 0, arg, <<>>, <<>>) : id \in NumberIds, arg \in NumArgs}
    \cup {Call(id, 0, 0, arg, <<>>) : id \in TextIds, arg \in ShortTexts}
    \cup {Call("010e", 0, delay % 1000, sign, <<>>) : sign \in Signs, delay \in NumArgs}
    \cup {Call("003a", 0, 0, text, <<>>) : text \in Texts}
    \cup {Call("003c", 0, 0, text, <<>>) : text \in Texts}
    \cup {Call("021", address, 0, text, <<>>) : address \in Addresses, text \in Texts}
    \cup {Call("021a", address, stopId, stopText, changeText) :
            address \in Addresses, stopId \in StopIds, stopText \in ShortTexts,
            changeText \in SecondTexts}
    \cup {Call("GSP", address, 0, line1, line2) :
            address \in Addresses, line1 \in Texts, line2 \in SecondTexts}

(* ---------------------------------------------------------------------- *)
(* The program: one port, and beside it the same calls made on a port     *)
(* whose diagnostics are never enabled (quiet). input is the formatter    *)
(* call the run makes: a send leaves the port as it found it, so a run    *)
(* that repeats one call reaches every state of the port that a run       *)
(* mixing calls reaches. last is the call just made: its name and         *)
(* arguments, the port before it, the telegram handed to SendTelegram,    *)
(* and what the call returned, wrote and printed.                         *)
(* ---------------------------------------------------------------------- *)

Init ==
    /\ port = NewPort
    /\ quiet = NewPort
    /\ input \in Calls
    /\ last = [op |-> "new", call |-> NoCall, initOk |-> FALSE, pre |-> NewPort,
               telegram |-> <<>>, ret |-> TRUE, out |-> <<>>, dbg |-> "none",
               quietRet |-> TRUE, quietOut |-> <<>>]

\* a call: r on the port, q on the quiet port
Step(op, call, initOk, telegram, r, q) ==
    /\ port' = r.st
    /\ quiet' = q.st
    /\ last' = [op |-> op, call |-> call, initOk |-> initOk, pre |-> port,
                telegram |-> telegram, ret |-> r.ret, out |-> r.out, dbg |-> r.dbg,
                quietRet |-> q.ret, quietOut |-> q.out]
    /\ UNCHANGED input

BeginCall ==
    \E initOk \in BOOLEAN :
        /\ Len(Begin(port, initOk).st.uarts) <= MaxUarts
        /\ Step("Begin", NoCall, initOk, <<>>, Begin(port, initOk), Begin(quiet, initOk))

EndCall == Step("End", NoCall, FALSE, <<>>, End(port), End(quiet))

\* enable is never given with a null outputStream: every debug line would
\* dereference it
SetDebugOutputCall ==
    \E enable \in BOOLEAN, outputStream \in Streams \cup {nullptr} :
        /\ enable => outputStream # nullptr
        /\ Step("SetDebugOutput", NoCall, FALSE, <<>>,
                SetDebugOutput(port, enable, outputStream),
                SetDebugOutput(quiet, FALSE, outputStream))

Send(telegram) ==
    Step("Send", input, FALSE, telegram, SendTelegram(port, telegram),
         SendTelegram(quiet, telegram))

DSNumberCall ==
    /\ input.ds \in NumberIds
    /\ Send(DSNumber(input.ds, input.num))

DSTextCall ==
    /\ input.ds \in TextIds
    /\ Send(DSText(input.ds, input.text))

DS010eCall ==
    /\ input.ds = "010e"
    /\ Send(DS010e(input.text, input.num))

DS003aCall ==
    /\ input.ds = "003a"
    /\ Send(DS003a(input.text))

DS003cCall ==
    /\ input.ds = "003c"
    /\ Send(DS003c(input.text))

DS021Call ==
    /\ input.ds = "021"
    /\ Send(DS021(input.addr, input.text))

DS021aCall ==
    /\ input.ds = "021a"
    /\ Send(DS021a(input.addr, input.num, input.text, input.text2))

GSPCall ==
    /\ input.ds = "GSP"
    /\ Send(GSP(input.addr, input.text, input.text2))

Next ==
    \/ BeginCall
    \/ EndCall
    \/ SetDebugOutputCall
    \/ DSNumberCall
    \/ DSTextCall
    \/ DS010eCall
    \/ DS003aCall
    \/ DS003cCall
    \/ DS021Call
    \/ DS021aCall
    \/ GSPCall

Spec == Init /\ [][Next]_vars

(* ---------------------------------------------------------------------- *)
(* Vocabulary of the properties                                           *)
(* ---------------------------------------------------------------------- *)

Sent == last.op = "Send"

\* the port was open before the call: it held a transport that had begun
WasOpen == Transport(last.pre) = "valid"

\* the bytes the call wrote to the serial port
Frame == last.out[1].bytes

\* the transports that have begun and not ended
OpenTransports(p) == {i \in 1..Len(p.uarts) : p.uarts[i] = "valid"}

Bit(n, k) == (n \div (2 ^ k)) % 2

\* seed ^ bytes[1] ^ ... ^ bytes[Len(bytes)], bit by bit: a bit of the result
\* is the bit of the seed, flipped once for every byte that has it set
FoldedXor(seed, bytes) ==
    LET bit(k) == (Bit(seed, k)
                   + Cardinality({i \in 1..Len(bytes) : Bit(bytes[i], k) = 1})) % 2
    IN bit(0) + 2 * bit(1) + 4 * bit(2) + 8 * bit(3)
       + 16 * bit(4) + 32 * bit(5) + 64 * bit(6) + 128 * bit(7)

\* the VDV 300 character of an umlaut, by the second byte of its UTF-8
\* encoding (0: no umlaut): ä { ö | ü } ß ~ Ä [ Ö \ Ü ]
UmlautCode(b) ==
    CASE b = 164 -> 123 [] b = 182 -> 124 [] b = 188 -> 125 [] b = 159 -> 126
      [] b = 132 -> 91 [] b = 150 -> 92 [] b = 156 -> 93 [] OTHER -> 0

\* an umlaut starts at byte i of s
UmlautAt(s, i) == i >= 1 /\ i < Len(s) /\ s[i] = 195 /\ UmlautCode(s[i + 1]) # 0

\* a value as VDV hex: one character 0x30 + value up to 15, two above
VdvHex(v) == IF v < 16 THEN <<48 + v>> ELSE <<48 + (v \div 16), 48 + (v % 16)>>

CeilDiv(n, d) == (n + d - 1) \div d

BlockTelegrams == {"003a", "003c", "021", "021a", "GSP"}

BlockSize(ds) == IF ds \in {"003a", "GSP"} THEN 16 ELSE 4

\* the length of the payload a call gives, before any padding
RawLength(c) ==
    CASE c.ds = "021a" -> 5 + Len(c.text) + Len(c.text2)
      [] c.ds = "GSP" ->
           Len(c.text) + (IF Len(c.text2) > 0 THEN 1 ELSE 0) + Len(c.text2) + 2
      [] OTHER -> Len(c.text)

\* where the block count stands in the telegram of a call
CountAt(c) == IF c.ds \in {"021", "021a", "GSP"} THEN 3 + Len(VdvHex(c.addr)) ELSE 3

\* the length of the designator and the VDV hex fields that follow it
HeaderLength(c) ==
    CountAt(c) - 1 + Len(VdvHex(CeilDiv(RawLength(c), BlockSize(c.ds))))
    + (IF c.ds = "021a" THEN 1 ELSE 0)

(* ---------------------------------------------------------------------- *)
(* Properties                                                             *)
(* ---------------------------------------------------------------------- *)

\* C1, as the specification states it: a Begin whose transport fails to
\* initialise returns false, and the Begin that follows it is not rejected as
\* already open: it goes on to create a transport and returns what that
\* transport's initialisation gives.
C1_FailedBeginLeavesClosed ==
    /\ (last.op = "Begin" /\ last.pre._port = nullptr /\ ~last.initOk)
          => last.ret = FALSE
    /\ (last.op = "Begin" /\ Transport(last.pre) = "invalid")
          => /\ Len(port.uarts) = Len(last.pre.uarts) + 1
             /\ last.ret = last.initOk

C3_BeginWhileOpenRejected ==
    /\ (last.op = "Begin" /\ WasOpen)
          => (last.ret = FALSE /\ port = last.pre /\ last.out = <<>>)
    /\ Cardinality(OpenTransports(port)) <= 1
    /\ OpenTransports(port) \subseteq {port._port}
    /\ (Sent /\ WasOpen) => (Len(last.out) = 1 /\ last.out[1].uart = last.pre._port)

\* a Begin made on an open port, whatever its transport would have done
C3_Witness == last.op = "Begin" /\ WasOpen /\ last.initOk

\* C4: End leaves the port closed and releases the transport it held, and
\* nothing else changes; on a closed port it changes nothing, so a second End
\* changes nothing; the Begin that follows is accepted.
C4_EndClosesAndIsIdempotent ==
    last.op = "End" =>
        /\ port._port = nullptr
        /\ last.pre._port # nullptr =>
              /\ port.uarts[last.pre._port] = "ended"
              /\ \A i \in 1..Len(port.uarts) :
                    i # last.pre._port => port.uarts[i] = last.pre.uarts[i]
        /\ last.pre._port = nullptr => port = last.pre
        /\ Len(port.uarts) = Len(last.pre.uarts)
        /\ port._debug = last.pre._debug
        /\ End(port).st = port
        /\ Begin(port, TRUE).ret = TRUE
        /\ Transport(Begin(port, TRUE).st) = "valid"

\* End of the second transport: Closed, Open, Closed, Open, Closed
C4_Witness ==
    /\ last.op = "End"
    /\ WasOpen
    /\ last.pre._port = 2
    /\ last.pre.uarts[1] = "ended"

\* C5: a send on an open port writes once, and writes the telegram with its
\* umlauts replaced, then 0x0D, then 0x7F XOR-ed with every byte before:
\* two bytes more than the replaced telegram.
C5_FrameIsBodyCRChecksum ==
    (Sent /\ WasOpen) =>
        /\ Len(last.out) = 1
        /\ LET body == ReplaceUmlauts(last.telegram)
           IN /\ Len(Frame) = Len(body) + 2
              /\ SubSeq(Frame, 1, Len(body)) = body
              /\ Frame[Len(body) + 1] = 13
              /\ Frame[Len(body) + 2] = FoldedXor(127, Append(body, 13))

\* DS001(1) sent on an open port: "l001", CR, and the checksum 0x2F
C5_Witness ==
    /\ Sent
    /\ WasOpen
    /\ last.call.ds = "001"
    /\ last.call.num = 1
    /\ Frame = <<108, 48, 48, 49, 13, 47>>

\* C6, as the specification states it: in the telegram of DS003a, DS003c, DS021, DS021a and GSP,
\* what follows the designator and the VDV hex fields has a length that is a
\* multiple of the block size (16 for DS003a and GSP, 4 for the others).
C6_PayloadPaddedToBlocks ==
    (Sent /\ last.call.ds \in BlockTelegrams) =>
        (Len(last.telegram) - HeaderLength(last.call)) % BlockSize(last.call.ds) = 0

\* C7, as the specification states it: ToHexString gives 0..15 one character each, 0x30 + value;
\* in the telegram of DS003a, DS003c and GSP the block count is one such
\* character, its value is ceil(payload length / block size), and that many
\* blocks are what follows it, in the telegram and in the bytes sent.
C7_BlockCountMatchesPayload ==
    /\ \A v \in 0..15 : ToHexString(v) = <<48 + v>>
    /\ (Sent /\ last.call.ds \in {"003a", "003c", "GSP"}) =>
          LET at == CountAt(last.call)
              count == last.telegram[at] - 48
              size == BlockSize(last.call.ds)
          IN /\ count \in 0..15
             /\ count = CeilDiv(RawLength(last.call), size)
             /\ count * size = Len(last.telegram) - at
             /\ last.out # <<>> => count * size = Len(Frame) - 2 - at

\* the telegram GSP is claimed to build, with the separator sep after line1
GSPTelegram(c, sep) ==
    LET lines == c.text \o sep \o c.text2 \o <<10, 10>>
        spaces == (16 - (Len(lines) % 16)) % 16
    IN <<97, 65>> \o VdvHex(c.addr) \o VdvHex((Len(lines) + spaces) \div 16)
       \o lines \o [i \in 1..spaces |-> 32]

\* C8, as the specification states it: GSP builds "aA", the address and the block count in VDV
\* hex, line1, one 0x0A, line2, two 0x0A, and spaces up to a multiple of 16,
\* for every line1 and line2.
C8_GSPAlwaysSeparated ==
    (Sent /\ last.call.ds = "GSP") => last.telegram = GSPTelegram(last.call, <<10>>)

\* C8, amended: the same, with the 0x0A after line1 only when line2 is not
\* empty; with an empty line2 the two 0x0A of the end marker follow line1.
C8_GSPSeparatedWhenLine2 ==
    (Sent /\ last.call.ds = "GSP") =>
        last.telegram =
            GSPTelegram(last.call, IF Len(last.call.text2) > 0 THEN <<10>> ELSE <<>>)

\* GSP called with a line1 and an empty line2
C8_Witness ==
    /\ Sent
    /\ last.call.ds = "GSP"
    /\ Len(last.call.text) > 0
    /\ Len(last.call.text2) = 0

\* C9: in the bytes sent, every umlaut of the telegram is replaced by its
\* VDV 300 character and every other byte is kept, in order; no umlaut is
\* left; the checksum is that of the bytes sent before it.
C9_UmlautsReplaced ==
    (Sent /\ WasOpen) =>
        LET t == last.telegram
            second == {i \in 2..Len(t) : UmlautAt(t, i - 1)}
            at(i) == i - Cardinality({k \in second : k < i})
        IN /\ Len(last.out) = 1
           /\ Len(Frame) = Len(t) - Cardinality(second) + 2
           /\ \A i \in (1..Len(t)) \ second :
                 Frame[at(i)] = IF UmlautAt(t, i) THEN UmlautCode(t[i + 1]) ELSE t[i]
           /\ \A i \in 1..Len(Frame) : ~UmlautAt(Frame, i)
           /\ Frame[Len(Frame)] = FoldedXor(127, SubSeq(Frame, 1, Len(Frame) - 1))

\* a text with the same umlaut three times, "üAüü", sent on an open port
C9_Witness ==
    /\ Sent
    /\ WasOpen
    /\ last.call.text = <<195, 188, 65, 195, 188, 195, 188>>
    /\ Len(last.out) = 1

=============================================================================
